---------------------------- MODULE Spec2Model ----------------------------
(***************************************************************************)
(* Library Word Cloud Generator (library_wordcloud_simple.py).             *)
(*                                                                         *)
(* The Streamlit script is re-run from top to bottom on every user         *)
(* interaction.  The state of the model is the state of the widgets        *)
(* (radio, file uploader, multiselects, slider) and the page the last      *)
(* re-run of the script produced.  Every action is one user interaction    *)
(* followed by the complete re-run of main().                              *)
(*                                                                         *)
(* Text is modelled as a sequence of one-character strings, so that        *)
(* strip / rstrip / re.sub / replace / split are computed character by     *)
(* character.  A column name is a sequence whose elements are either the   *)
(* blank " " or a chunk of name text that neither starts nor ends with a   *)
(* blank.  A missing cell (pandas NaN) is the one-element sequence NaN.    *)
(***************************************************************************)
EXTENDS Integers, Sequences, FiniteSets, TLC

\* ------------------------------------------------------------------ bounds

\* Largest number of records of an uploaded table of filter columns.
MaxRows == 3

\* Largest number of records of an uploaded table of subjects and usage.
MaxSubjectRows == 2

\* ------------------------------------------------------- values and helpers

\* pandas' missing value: read_csv yields NaN for an empty cell.
NaN == <<"NaN">>

\* Python's None, as returned by clean_subject_term.
None == <<"None">>

\* The characters str.strip() and the regular expression's \s remove.
Whitespace == {" "}

\* The character class [0-9\-] of the date-range pattern.
DateChars == {"0", "1", "2", "3", "4", "5", "6", "7", "8", "9", "-"}

Range(s) == {s[i] : i \in DOMAIN s}

\* str.lstrip(chars)
RECURSIVE lstrip(_, _)
lstrip(s, chars) ==
    IF s # <<>> /\ Head(s) \in chars THEN lstrip(Tail(s), chars) ELSE s

\* str.rstrip(chars)
RECURSIVE rstrip(_, _)
rstrip(s, chars) ==
    IF s # <<>> /\ s[Len(s)] \in chars
    THEN rstrip(SubSeq(s, 1, Len(s) - 1), chars)
    ELSE s

\* str.strip(): surrounding whitespace removed.
strip(s) == rstrip(lstrip(s, Whitespace), Whitespace)

\* First position >= i of s whose character is not in chars (Len(s)+1 if none).
RECURSIVE SkipWhile(_, _, _)
SkipWhile(s, i, chars) ==
    IF i <= Len(s) /\ s[i] \in chars THEN SkipWhile(s, i + 1, chars) ELSE i

\* A slip of the pattern: the whitespace before the parenthesis is left out.
DateGroupEnd_no_space(s, i) ==
    IF s[i] = "("
    THEN LET k == SkipWhile(s, i + 1, DateChars) IN
         IF k > i + 1 /\ k <= Len(s) /\ s[k] = ")" THEN k ELSE 0
    ELSE 0

\* The pattern \s*\([0-9\-]+\) matched at position i of s: the position of the
\* closing parenthesis, or 0 when the pattern does not match there.
DateGroupEnd(s, i) ==
    LET j == SkipWhile(s, i, Whitespace) IN
    IF j <= Len(s) /\ s[j] = "("
    THEN LET k == SkipWhile(s, j + 1, DateChars) IN
         IF k > j + 1 /\ k <= Len(s) /\ s[k] = ")" THEN k ELSE 0
    ELSE 0

\* re.sub(r'\s*\([0-9\-]+\)', '', s) from position i on: leftmost matches,
\* left to right, none overlapping.
RECURSIVE RemoveDateGroups(_, _)
RemoveDateGroups(s, i) ==
    IF i > Len(s) THEN <<>>
    ELSE LET e == DateGroupEnd(s, i) IN
         IF e > 0 THEN RemoveDateGroups(s, e + 1)
         ELSE <<s[i]>> \o RemoveDateGroups(s, i + 1)

\* str.replace('--', ' - ')
RECURSIVE ReplaceDashes(_)
ReplaceDashes(s) ==
    IF s = <<>> THEN <<>>
    ELSE IF Len(s) >= 2 /\ s[1] = "-" /\ s[2] = "-"
    THEN <<" ", "-", " ">> \o ReplaceDashes(SubSeq(s, 3, Len(s)))
    ELSE <<Head(s)>> \o ReplaceDashes(Tail(s))

\* clean_subject_term(term): the canonical term, or None.
clean_subject_term(term) ==
    IF term = NaN \/ term = <<>> THEN None
    ELSE LET t1 == strip(term)
             t2 == rstrip(t1, {".", ";"})
             t3 == RemoveDateGroups(t2, 1)
             t4 == ReplaceDashes(t3)
         IN IF t4 = <<>> THEN None ELSE t4

\* str.split(sep): the segments between the separators, empty ones included.
RECURSIVE split(_, _)
split(s, sep) ==
    IF sep \notin Range(s) THEN <<s>>
    ELSE LET i == CHOOSE k \in DOMAIN s :
                     s[k] = sep /\ \A m \in 1..(k - 1) : s[m] # sep
         IN <<SubSeq(s, 1, i - 1)>> \o split(SubSeq(s, i + 1, Len(s)), sep)

\* A Python dict / Counter: the sequence of its items in insertion order.
DictKeys(d) == {d[i].key : i \in DOMAIN d}

\* d.get(k, default)
DictGet(d, k, default) ==
    IF k \in DictKeys(d)
    THEN (d[CHOOSE i \in DOMAIN d : d[i].key = k]).value
    ELSE default

\* d[k] = v: an existing key keeps its place, a new key goes last.
DictSet(d, k, v) ==
    IF k \in DictKeys(d)
    THEN [i \in DOMAIN d |-> IF d[i].key = k THEN [key |-> k, value |-> v] ELSE d[i]]
    ELSE Append(d, [key |-> k, value |-> v])

\* ------------------------------------------------- process_subjects, Counter

\* The loop of process_subjects over the segments i..Len(subjects):
\* every segment that cleans to a term adds the weight to that term.
RECURSIVE ProcessSegments(_, _, _, _)
ProcessSegments(subjects, i, weight, weighted_subjects) ==
    IF i > Len(subjects) THEN weighted_subjects
    ELSE LET cleaned == clean_subject_term(subjects[i]) IN
         ProcessSegments(subjects, i + 1, weight,
             IF cleaned # None
             THEN DictSet(weighted_subjects, cleaned,
                          DictGet(weighted_subjects, cleaned, 0) + weight)
             ELSE weighted_subjects)

\* A slip of process_subjects: a term repeated in one record counts once.
RECURSIVE ProcessSegmentsOnce(_, _, _, _)
ProcessSegmentsOnce(subjects, i, weight, weighted_subjects) ==
    IF i > Len(subjects) THEN weighted_subjects
    ELSE LET cleaned == clean_subject_term(subjects[i]) IN
         ProcessSegmentsOnce(subjects, i + 1, weight,
             IF cleaned # None
             THEN DictSet(weighted_subjects, cleaned, weight)
             ELSE weighted_subjects)

process_subjects_once(subjects_str, weight) ==
    IF subjects_str = NaN \/ subjects_str = <<>> THEN <<>>
    ELSE ProcessSegmentsOnce(split(subjects_str, ";"), 1, weight, <<>>)

\* process_subjects(subjects_str, weight): the dict term -> weight of one record.
process_subjects(subjects_str, weight) ==
    IF subjects_str = NaN \/ subjects_str = <<>> THEN <<>>
    ELSE ProcessSegments(split(subjects_str, ";"), 1, weight, <<>>)

\* Counter.update(mapping): the mapping's counts are added to the counter's,
\* items i..Len(mapping).
RECURSIVE CounterUpdate(_, _, _)
CounterUpdate(counter, mapping, i) ==
    IF i > Len(mapping) THEN counter
    ELSE CounterUpdate(
             DictSet(counter, mapping[i].key,
                     mapping[i].value + DictGet(counter, mapping[i].key, 0)),
             mapping, i + 1)

\* ------------------------------------------------------------- the DataFrame

\* A DataFrame: columns (the names, in file order) and rows (each a sequence
\* of cells, one per column).
HasColumn(df, name) == name \in Range(df.columns)

ColumnIndex(df, name) == CHOOSE c \in DOMAIN df.columns : df.columns[c] = name

\* df[name]: the cells of a column, one per row.
Column(df, name) ==
    [r \in DOMAIN df.rows |-> df.rows[r][ColumnIndex(df, name)]]

\* pd.read_csv followed by df.columns.str.strip()
ReadCsv(file) ==
    [columns |-> [c \in DOMAIN file.header |-> strip(file.header[c])],
     rows    |-> file.rows]

\* --------------------------------------------------------- numeric coercion

Digits == <<"0", "1", "2", "3", "4", "5", "6", "7", "8", "9">>

DigitValue(ch) == (CHOOSE d \in DOMAIN Digits : Digits[d] = ch) - 1

IsDigits(s) == s # <<>> /\ \A i \in DOMAIN s : s[i] \in Range(Digits)

RECURSIVE DigitsValue(_)
DigitsValue(s) ==
    IF s = <<>> THEN 0
    ELSE 10 * DigitsValue(SubSeq(s, 1, Len(s) - 1)) + DigitValue(s[Len(s)])

\* pd.to_numeric(cell, errors='coerce') on one cell: a number, or NaN.
\* (Cells drawn here are missing, decimal integers with an optional sign,
\* or text that is no number.)
to_numeric(cell) ==
    IF cell # NaN /\ IsDigits(cell)
    THEN [isna |-> FALSE, num |-> DigitsValue(cell)]
    ELSE IF cell # NaN /\ cell # <<>> /\ Head(cell) = "-" /\ IsDigits(Tail(cell))
    THEN [isna |-> FALSE, num |-> 0 - DigitsValue(Tail(cell))]
    ELSE [isna |-> TRUE, num |-> 0]

\* A slip of fillna: the number's sign is dropped with the missing values.
fillna_abs(x, value) ==
    IF x.isna THEN value ELSE IF x.num < 0 THEN 0 - x.num ELSE x.num

\* Series.fillna(value) on one element.
fillna(x, value) == IF x.isna THEN value ELSE x.num

Number(n) == [isna |-> FALSE, num |-> n]

\* ------------------------------------------- data type and column definitions

\* The options of the "Select Data Collection Type" radio; the first is the
\* default.
DataTypeOptions ==
    <<"Physical Collections",
      "Digital Collections (Tulane Digitial Library)",
      "COUNTER Reports (e-resources)">>

\* The literal the script compares data_type with for its Digital branch.
DigitalLiteral == "Digital Collections (Tulane Digital Libraries)"

SUBJECTS == <<"Subjects">>
WEIGHT == <<"Weight">>

DownloadsAliases == << <<"Downloads">>, <<"Digital File Downloads">> >>
ViewsAliases == << <<"Views">>, <<"Digital File Views">> >>

\* WEIGHT_COL_ALIASES, METRIC_TITLE, METRIC_UNIT and FILTER_COLS as the
\* if / elif / else on data_type sets them.
ColumnDefinitions(data_type) ==
    IF data_type = "Physical Collections"
    THEN [WEIGHT_COL_ALIASES |-> << <<"Loans">>, <<"Checkouts">>, <<"Circulation">> >>,
          METRIC_TITLE |-> <<"Total Checkouts">>,
          METRIC_UNIT  |-> <<"Checkouts">>,
          FILTER_COLS  |-> << [key |-> "Location", aliases |-> << <<"Location Name">> >>],
                              [key |-> "LC Classification",
                               aliases |-> << <<"LC Classification Code">> >>] >>]
    ELSE IF data_type = DigitalLiteral
    THEN [WEIGHT_COL_ALIASES |-> << <<"Downloads">>, <<"Views">>,
                                    <<"Digital File Downloads">>, <<"Digital File Views">> >>,
          METRIC_TITLE |-> <<"Total Usage (D/V)">>,
          METRIC_UNIT  |-> <<"Views + Downloads">>,
          FILTER_COLS  |-> << [key |-> "Resource Name",
                               aliases |-> << <<"Name of file">>, <<"File Name">> >>],
                              [key |-> "Collection Name",
                               aliases |-> << <<"Collection Name">> >>] >>]
    ELSE [WEIGHT_COL_ALIASES |-> << <<"Total_Item_Requests">>, <<"Unique_Item_Requests">>,
                                    <<"Total_Requests">>, <<"Searches_Platform">> >>,
          METRIC_TITLE |-> <<"Total Usage (COUNTER)">>,
          METRIC_UNIT  |-> <<"Requests">>,
          FILTER_COLS  |-> << [key |-> "Title", aliases |-> << <<"Title">> >>],
                              [key |-> "Platform", aliases |-> << <<"Platform">> >>],
                              [key |-> "Publisher", aliases |-> << <<"Publisher">> >>] >>]

\* for alias in aliases: if alias in df.columns: ...; break
\* (also next((c for c in aliases if c in df.columns), None))
FirstPresent(aliases, df) ==
    IF \E i \in DOMAIN aliases : HasColumn(df, aliases[i])
    THEN aliases[CHOOSE i \in DOMAIN aliases :
                     /\ HasColumn(df, aliases[i])
                     /\ \A j \in 1..(i - 1) : ~HasColumn(df, aliases[j])]
    ELSE None

\* f"Total Usage ({final_metric})"
TotalUsage(final_metric) == <<"Total Usage (">> \o final_metric \o <<")">>

\* pd.to_numeric(df[col], errors='coerce').fillna(0) if col else 0
NumericOrZero(df, col) ==
    IF col # None
    THEN [r \in DOMAIN df.rows |-> fillna(to_numeric(Column(df, col)[r]), 0)]
    ELSE [r \in DOMAIN df.rows |-> 0]

\* A slip of Scenario 1: the data type is compared with the radio's own text.
CompositeWeighting_radio_text(data_type, weight_col, df) ==
    /\ data_type = DataTypeOptions[2]
    /\ weight_col = None
    /\ \/ \E i \in DOMAIN DownloadsAliases : HasColumn(df, DownloadsAliases[i])
       \/ \E i \in DOMAIN ViewsAliases : HasColumn(df, ViewsAliases[i])

\* Scenario 1 is entered and finds a downloads or a views column:
\* df['Weight'] = dl_val + view_val is executed.
CompositeWeighting(data_type, weight_col, df) ==
    /\ data_type = DigitalLiteral
    /\ weight_col = None
    /\ \/ \E i \in DOMAIN DownloadsAliases : HasColumn(df, DownloadsAliases[i])
       \/ \E i \in DOMAIN ViewsAliases : HasColumn(df, ViewsAliases[i])

\* The weighting section of main(): weight column, 'Weight' per record,
\* metric labels, and whether the fallback warning was shown.
ComputeWeight(data_type, df) ==
    LET defs        == ColumnDefinitions(data_type)
        found       == FirstPresent(defs.WEIGHT_COL_ALIASES, df)
        has_downloads == \E i \in DOMAIN DownloadsAliases : HasColumn(df, DownloadsAliases[i])
        has_views   == \E i \in DOMAIN ViewsAliases : HasColumn(df, ViewsAliases[i])
        \* Scenario 1: the combined downloads / views weight
        composite   == CompositeWeighting(data_type, found, df)
        dl_val      == NumericOrZero(df, FirstPresent(DownloadsAliases, df))
        view_val    == NumericOrZero(df, FirstPresent(ViewsAliases, df))
        final_dv    == (IF has_downloads THEN <<"Downloads">> ELSE <<>>)
                       \o (IF has_downloads /\ has_views THEN <<" + ">> ELSE <<>>)
                       \o (IF has_views THEN <<"Views">> ELSE <<>>)
        weight_col  == found
        \* 'Weight' in df.columns when Scenario 2 is reached
        has_Weight  == composite \/ HasColumn(df, WEIGHT)
        fallback    == weight_col = None /\ ~has_Weight
        \* df['Weight'] before the final numeric conversion
        assigned    ==
            IF weight_col # None
            THEN [r \in DOMAIN df.rows |->
                     Number(fillna(to_numeric(Column(df, weight_col)[r]), 0))]
            ELSE IF fallback
            THEN [r \in DOMAIN df.rows |-> Number(1)]
            ELSE IF composite
            THEN [r \in DOMAIN df.rows |-> Number(dl_val[r] + view_val[r])]
            ELSE [r \in DOMAIN df.rows |-> to_numeric(Column(df, WEIGHT)[r])]
    IN [weight_col   |-> weight_col,
        composite    |-> composite,
        fallback     |-> fallback,
        \* df['Weight'] = pd.to_numeric(df['Weight'], errors='coerce').fillna(0)
        Weight       |-> [r \in DOMAIN df.rows |-> fillna(assigned[r], 0)],
        METRIC_TITLE |-> IF weight_col # None THEN TotalUsage(weight_col)
                         ELSE IF fallback THEN <<"Total Usage (Records)">>
                         ELSE IF composite THEN TotalUsage(final_dv)
                         ELSE defs.METRIC_TITLE,
        METRIC_UNIT  |-> IF weight_col # None THEN weight_col
                         ELSE IF fallback THEN <<"Records">>
                         ELSE IF composite THEN final_dv
                         ELSE defs.METRIC_UNIT]

\* ------------------------------------------------------------------ filters

\* actual_filter_cols: every filter key with a present alias, bound to the
\* first one, in the order of FILTER_COLS.
RECURSIVE ActualFilterCols(_, _, _)
ActualFilterCols(FILTER_COLS, df, i) ==
    IF i > Len(FILTER_COLS) THEN <<>>
    ELSE LET col == FirstPresent(FILTER_COLS[i].aliases, df) IN
         (IF col # None THEN << [key |-> FILTER_COLS[i].key, col |-> col] >> ELSE <<>>)
         \o ActualFilterCols(FILTER_COLS, df, i + 1)

\* df[col].dropna().unique(): the distinct values of a column, none missing.
UniqueValues(df, col) == Range(Column(df, col)) \ {NaN}

\* A slip of isin: a missing cell passes.
isin_or_missing(cell, values) == cell = NaN \/ cell \in values

\* Series.isin(values) on one cell; NaN is in no selection.
isin(cell, values) == cell # NaN /\ cell \in values

\* filtered_df[filtered_df[col].isin(selected)]: the kept row labels, in order.
SelectRows(df, filtered, col, selected) ==
    SelectSeq(filtered, LAMBDA r : isin(Column(df, col)[r], selected))

\* A slip of the filter condition: a selection is a restriction whatever its size.
IsRestriction_any(df, col, selected_values) == selected_values # {}

\* if selected_values and len(selected_values) < len(df[col].dropna().unique())
IsRestriction(df, col, selected_values) ==
    /\ selected_values # {}
    /\ Cardinality(selected_values) < Cardinality(UniqueValues(df, col))

\* The filter loop of main() over actual_filter_cols[i..]: the rows kept and
\* the parts of the filter summary.
RECURSIVE ApplyFilters(_, _, _, _, _)
ApplyFilters(df, cols, filter_selections, i, acc) ==
    IF i > Len(cols) THEN acc
    ELSE LET col      == cols[i].col
             selected == filter_selections[cols[i].key]
         IN ApplyFilters(df, cols, filter_selections, i + 1,
                IF IsRestriction(df, col, selected)
                THEN [filtered_df |-> SelectRows(df, acc.filtered_df, col, selected),
                      filter_summary_parts |->
                          Append(acc.filter_summary_parts,
                                 [key |-> cols[i].key, selected |-> Cardinality(selected)])]
                ELSE acc)

\* ------------------------------------------------------------- aggregation

\* The loop over filtered_df.iterrows(), rows i..: every record with a
\* subject field adds its weighted subjects to the counter.
RECURSIVE AggregateRows(_, _, _, _, _)
AggregateRows(df, Weight, filtered_df, i, all_subjects) ==
    IF i > Len(filtered_df) THEN all_subjects
    ELSE LET r == filtered_df[i]
             subjects == Column(df, SUBJECTS)[r]
         IN AggregateRows(df, Weight, filtered_df, i + 1,
                IF subjects # NaN
                THEN CounterUpdate(all_subjects,
                                   process_subjects(subjects, Weight[r]), 1)
                ELSE all_subjects)

\* ------------------------------------------------------- ranking the terms

\* The default of the "Top N terms for bar chart" slider.
TopNDefault == 20

\* sorted(..., reverse=True) keeps equal items in their original order:
\* the item goes after every item whose count is not smaller.
RECURSIVE InsertByCount(_, _)
InsertByCount(sorted, item) ==
    IF sorted = <<>> THEN <<item>>
    ELSE IF Head(sorted).value >= item.value
    THEN <<Head(sorted)>> \o InsertByCount(Tail(sorted), item)
    ELSE <<item>> \o sorted

RECURSIVE StableSortByCount(_, _, _)
StableSortByCount(items, i, sorted) ==
    IF i > Len(items) THEN sorted
    ELSE StableSortByCount(items, i + 1, InsertByCount(sorted, items[i]))

\* Counter.most_common(n): the n largest counts, equal counts in the order
\* the terms were first encountered.
most_common(counter, n) ==
    LET sorted == StableSortByCount(counter, 1, <<>>) IN
    IF Len(sorted) <= n THEN sorted ELSE SubSeq(sorted, 1, n)

Orders(n) == {f \in [1..n -> 1..n] : \A i, j \in 1..n : i # j => f[i] # f[j]}

\* A slip of the sort: ascending=False forgotten.
sort_values_ascending(items) ==
    {[i \in DOMAIN items |-> items[f[i]]] :
        f \in {g \in Orders(Len(items)) :
                 \A i, j \in 1..Len(items) :
                     i < j => items[g[i]].value <= items[g[j]].value}}

\* DataFrame.sort_values('Weighted Count', ascending=False): the sort is
\* pandas' default kind, 'quicksort', which is not a stable sort; the order
\* of rows of equal count is therefore any order.  The possible results.
sort_values(items) ==
    {[i \in DOMAIN items |-> items[f[i]]] :
        f \in {g \in Orders(Len(items)) :
                 \A i, j \in 1..Len(items) :
                     i < j => items[g[i]].value >= items[g[j]].value}}

\* freq_df['Rank'] = range(1, len(freq_df) + 1)
WithRank(sorted) ==
    [i \in DOMAIN sorted |->
        [Rank |-> i, term |-> sorted[i].key, count |-> sorted[i].value]]

\* --------------------------------------------------------------- the script

\* uploaded_file is None
NoFile == [header |-> <<>>, rows |-> <<>>]

\* options of each multiselect, which are also its default selection.
DefaultSelections(data_type, file) ==
    LET df   == ReadCsv(file)
        cols == ActualFilterCols(ColumnDefinitions(data_type).FILTER_COLS, df, 1)
    IN IF file = NoFile \/ ~HasColumn(df, SUBJECTS) THEN <<>>
       ELSE [k \in {cols[i].key : i \in DOMAIN cols} |->
                UniqueValues(df, (cols[CHOOSE i \in DOMAIN cols : cols[i].key = k]).col)]

\* What a run shows when it stops before the weights are computed.
BlankPage(report) ==
    [report |-> report, weight_col |-> None, Weight |-> <<>>,
     METRIC_TITLE |-> <<>>, METRIC_UNIT |-> <<>>, fallback_notice |-> FALSE,
     composite |-> FALSE,
     actual_filter_cols |-> <<>>, filtered_df |-> <<>>,
     filter_summary_parts |-> <<>>, aggregated |-> FALSE,
     all_subjects |-> <<>>, cloud_frequencies |-> <<>>,
     top_terms |-> <<>>, freq_df |-> <<>>]

\* A slip of the validation: the header is looked up before it is stripped.
SubjectsMissing_raw(file, df) == SUBJECTS \notin Range(file.header)

\* if 'Subjects' not in df.columns
SubjectsMissing(file, df) == ~HasColumn(df, SUBJECTS)

\* A slip of the emptiness test: the test is left out.
IsEmpty_never(filtered_df) == FALSE

\* filtered_df.empty
IsEmpty(filtered_df) == filtered_df = <<>>

\* One run of main() up to the ranking of the frequency table: the page it
\* renders.  button is the value st.button returns in this run.
Script(data_type, uploaded_file, filter_selections, button) ==
    IF uploaded_file = NoFile THEN BlankPage("no_file")
    ELSE
    LET df == ReadCsv(uploaded_file) IN
    IF SubjectsMissing(uploaded_file, df) THEN BlankPage("validation_error")
    ELSE
    LET w        == ComputeWeight(data_type, df)
        cols     == ActualFilterCols(ColumnDefinitions(data_type).FILTER_COLS, df, 1)
        overview == [BlankPage("overview") EXCEPT
                        !.weight_col = w.weight_col,
                        !.Weight = w.Weight,
                        !.METRIC_TITLE = w.METRIC_TITLE,
                        !.METRIC_UNIT = w.METRIC_UNIT,
                        !.fallback_notice = w.fallback,
                        !.composite = w.composite,
                        !.actual_filter_cols = cols]
    IN
    IF ~button THEN overview
    ELSE
    LET f == ApplyFilters(df, cols, filter_selections, 1,
                 [filtered_df |-> [r \in DOMAIN df.rows |-> r],
                  filter_summary_parts |-> <<>>])
        filtered == [overview EXCEPT
                        !.filtered_df = f.filtered_df,
                        !.filter_summary_parts = f.filter_summary_parts]
    IN
    IF IsEmpty(f.filtered_df) THEN [filtered EXCEPT !.report = "empty_filter"]
    ELSE
    LET all_subjects == AggregateRows(df, w.Weight, f.filtered_df, 1, <<>>) IN
    IF all_subjects = <<>>
    THEN [filtered EXCEPT !.report = "empty_aggregation", !.aggregated = TRUE]
    ELSE [filtered EXCEPT
             !.report = "results",
             !.aggregated = TRUE,
             !.all_subjects = all_subjects,
             \* WordCloud(...).generate_from_frequencies(dict(all_subjects))
             !.cloud_frequencies = all_subjects,
             !.top_terms = most_common(all_subjects, TopNDefault)]

\* ------------------------------------------------------- the uploaded files

SeqsUpTo(S, n) == UNION {[1..k -> S] : k \in 0..n}

\* The (Subjects, Loans) cells of a record.  Subjects: a missing cell, one
\* term, a term twice, two terms of which the second cleans to the first
\* cell's term, a longer term with a date range, a cell of which no segment
\* cleans to a term.  Loans: a count, or a negative number.
SubjectRows ==
    {<<NaN, <<"1">>>>,
     <<<<"a">>, <<"1">>>>,
     <<<<"a">>, <<"-", "2">>>>,
     <<<<"a", ";", "a">>, <<"1">>>>,
     <<<<"b", ";", " ", "a", ".">>, <<"1">>>>,
     <<<<"a", "b", "c", " ", "(", "1", "-", "2", ")">>, <<"-", "2">>>>,
     <<<<" ", ";", ".">>, <<"1">>>>}

\* Tables with a subject column and a 'Loans' column.
AggregationFiles ==
    {[header |-> <<SUBJECTS, <<"Loans">> >>, rows |-> rows] :
        rows \in SeqsUpTo(SubjectRows, MaxSubjectRows)}

\* Cells of a filter column: missing, or one of two text values.
FilterCells == {NaN, <<"M">>, <<"B">>}

\* The (Location Name, LC Classification Code) cells of a record.
FilterRows ==
    {<<<<"M">>, <<"M">>>>, <<<<"B">>, <<"B">>>>, <<<<"M">>, <<"B">>>>, <<NaN, <<"M">>>>}

\* Tables with the two filter columns of the physical collections; the
\* second header is padded as exports often are.
FilterFiles ==
    {[header |-> <<SUBJECTS, <<"Location Name">>, <<" ", "LC Classification Code">> >>,
      rows |-> rows] :
        rows \in SeqsUpTo({<< <<"a">> >> \o f : f \in FilterRows}, MaxRows)}

\* Headers for the subject column: exact, padded, wrong case.
SubjectHeaders == {<<"Subjects">>, <<" ", "Subjects", " ">>, <<"subjects">>}

\* Other columns a table may have: weight aliases of the three kinds, a
\* column named 'Weight', and filter columns.
OtherHeaders ==
    << <<"Loans">>, <<"Checkouts">>, <<"Downloads">>, <<"Views">>,
       <<"Digital File Downloads">>, <<"Total_Item_Requests">>,
       <<"Weight">>, <<"Location Name">> >>

\* Cells of the other columns: missing, text that is no number, a number.
OtherCells == {NaN, <<"x">>, <<"3">>}

\* The columns picked by the index set I, in the order of OtherHeaders.
RECURSIVE Pick(_, _, _)
Pick(names, I, i) ==
    IF i > Len(names) THEN <<>>
    ELSE (IF i \in I THEN <<names[i]>> ELSE <<>>) \o Pick(names, I, i + 1)

\* One-record tables with or without a subject column and with at most two
\* other columns.
SchemaFiles ==
    LET others == {Pick(OtherHeaders, I, 1) :
                      I \in {J \in SUBSET DOMAIN OtherHeaders : Cardinality(J) <= 2}}
    IN UNION {
         {[header |-> h, rows |-> <<cells>>] : cells \in [DOMAIN h -> OtherCells]}
         \cup
         {[header |-> <<sh>> \o h, rows |-> << <<<<"a">>>> \o cells >>] :
              sh \in SubjectHeaders, cells \in [DOMAIN h -> OtherCells]}
         : h \in others} \ {NoFile}

Files == AggregationFiles \cup FilterFiles \cup SchemaFiles

\* The values the "Minimum word length" slider (1 to 10, default 3) is moved to.
MinWordLengthChoices == {1, 3}

\* ---------------------------------------------------------------- the state

VARIABLES
    data_type,        \* the radio's value
    uploaded_file,    \* the file uploader's value
    filter_state,     \* the multiselects' values, by filter key
    min_word_length,  \* the slider's value
    page,             \* what the last run of the script rendered
    term,             \* the argument of a call of the subject functions
    cleaned,          \* what clean_subject_term(term) returned
    subjects_weighted,\* what process_subjects(term, 1) returned
    returned          \* the subject functions that have returned

\* The state of the script, and the state of a call of the subject functions.
script == <<data_type, uploaded_file, filter_state, min_word_length, page>>
call == <<term, cleaned, subjects_weighted, returned>>

vars == <<data_type, uploaded_file, filter_state, min_word_length, page,
          term, cleaned, subjects_weighted, returned>>

\* The script before any interaction.
ScriptInit ==
    /\ data_type = DataTypeOptions[1]
    /\ uploaded_file = NoFile
    /\ filter_state = <<>>
    /\ min_word_length = 3
    /\ page = BlankPage("no_file")

Init ==
    /\ ScriptInit
    /\ term = NaN
    /\ cleaned = None
    /\ subjects_weighted = <<>>
    /\ returned = {}

\* The settings of the sidebar are rendered: a file is loaded and valid.
SidebarShown == page.report \notin {"no_file", "validation_error"}

\* The user picks a data type; the script runs with no file.
SelectDataType(dt) ==
    /\ uploaded_file = NoFile
    /\ data_type' = dt
    /\ page' = Script(dt, uploaded_file, filter_state, FALSE)
    /\ UNCHANGED <<uploaded_file, filter_state, min_word_length>>
    /\ UNCHANGED call

\* The user uploads a CSV file; the multiselects and the slider are rendered
\* with their defaults.
UploadFile(file) ==
    /\ uploaded_file = NoFile
    /\ uploaded_file' = file
    /\ filter_state' = DefaultSelections(data_type, file)
    /\ min_word_length' = 3
    /\ page' = Script(data_type, file, filter_state', FALSE)
    /\ UNCHANGED data_type
    /\ UNCHANGED call

\* The user removes the file from the uploader.
RemoveFile ==
    /\ uploaded_file # NoFile
    /\ uploaded_file' = NoFile
    /\ filter_state' = <<>>
    /\ min_word_length' = 3
    /\ page' = Script(data_type, NoFile, <<>>, FALSE)
    /\ UNCHANGED data_type
    /\ UNCHANGED call

\* The user changes the selection of one multiselect.
SetFilter(key, selected) ==
    /\ SidebarShown
    /\ key \in DOMAIN filter_state
    /\ selected # filter_state[key]
    /\ selected \subseteq DefaultSelections(data_type, uploaded_file)[key]
    /\ filter_state' = [filter_state EXCEPT ![key] = selected]
    /\ page' = Script(data_type, uploaded_file, filter_state', FALSE)
    /\ UNCHANGED <<data_type, uploaded_file, min_word_length>>
    /\ UNCHANGED call

\* The user moves the "Minimum word length" slider.
SetMinWordLength(n) ==
    /\ SidebarShown
    /\ n # min_word_length
    /\ min_word_length' = n
    /\ page' = Script(data_type, uploaded_file, filter_state, FALSE)
    /\ UNCHANGED <<data_type, uploaded_file, filter_state>>
    /\ UNCHANGED call

\* The user clicks "Generate Word Cloud": the run filters, aggregates, and
\* ranks the frequency table.
Generate ==
    /\ SidebarShown
    /\ LET p == Script(data_type, uploaded_file, filter_state, TRUE) IN
       \E sorted \in sort_values(p.all_subjects) :
           page' = [p EXCEPT !.freq_df = WithRank(sorted)]
    /\ UNCHANGED <<data_type, uploaded_file, filter_state, min_word_length>>
    /\ UNCHANGED call

Next ==
    \/ \E dt \in Range(DataTypeOptions) : SelectDataType(dt)
    \/ \E file \in Files : UploadFile(file)
    \/ RemoveFile
    \/ \E key \in DOMAIN filter_state :
           \E selected \in SUBSET (FilterCells \ {NaN}) \cup SUBSET (OtherCells \ {NaN}) :
               SetFilter(key, selected)
    \/ \E n \in MinWordLengthChoices : SetMinWordLength(n)
    \/ Generate

Spec == Init /\ [][Next]_vars

\* ------------------------------------------- the subject functions on their own

\* Largest length of a raw term drawn character by character.
MaxTermLen == 4

\* The characters the raw terms are drawn from: whitespace, the trailing
\* punctuation, the parentheses, a digit, the hyphen, and a letter.
TermChars == {" ", ".", ";", "(", ")", "1", "-", "a"}

\* A subject heading as catalogues export it.
WorldHistory ==
    <<"W", "o", "r", "l", "d", " ", "H", "i", "s", "t", "o", "r", "y", " ",
      "(", "1", "9", "9", "0", "-", "2", "0", "0", "0", ")", ".">>

\* A heading with every kind of text the cleaning removes or replaces.
PaddedHeading ==
    <<" ", "a", "-", "-", "b", " ", "(", "1", "-", "2", ")", ".", ";", " ">>

\* The raw terms: a missing value, every string of at most MaxTermLen
\* characters (the empty string among them), and two longer headings.
Terms ==
    {NaN} \cup SeqsUpTo(TermChars, MaxTermLen) \cup {WorldHistory, PaddedHeading}

NormInit ==
    /\ ScriptInit
    /\ term \in Terms
    /\ cleaned = None
    /\ subjects_weighted = <<>>
    /\ returned = {}

\* clean_subject_term(term) is called and returns.
CleanSubjectTerm ==
    /\ "clean_subject_term" \notin returned
    /\ cleaned' = clean_subject_term(term)
    /\ returned' = returned \cup {"clean_subject_term"}
    /\ UNCHANGED <<term, subjects_weighted>>
    /\ UNCHANGED script

\* process_subjects(term, 1) is called and returns.
ProcessSubjects ==
    /\ "process_subjects" \notin returned
    /\ subjects_weighted' = process_subjects(term, 1)
    /\ returned' = returned \cup {"process_subjects"}
    /\ UNCHANGED <<term, cleaned>>
    /\ UNCHANGED script

NormNext == CleanSubjectTerm \/ ProcessSubjects

SpecNorm == NormInit /\ [][NormNext]_vars

\* ------------------------------------------------- vocabulary of the claims

\* The DataFrame of the current upload.
df == ReadCsv(uploaded_file)

\* The last run was started by the Generate button.
Generated == page.report \in {"empty_filter", "empty_aggregation", "results"}

\* The number of ';'-separated segments of a subject field that clean to t.
SegmentCount(subjects_str, t) ==
    LET segments == split(subjects_str, ";") IN
    Cardinality({i \in DOMAIN segments : clean_subject_term(segments[i]) = t})

\* The sum over the records rows[i..] with a subject field of
\* weight x number of segments that clean to t.
RECURSIVE ExpectedWeight(_, _, _)
ExpectedWeight(rows, i, t) ==
    IF i > Len(rows) THEN 0
    ELSE LET subjects == Column(df, SUBJECTS)[rows[i]] IN
         (IF subjects = NaN THEN 0
          ELSE page.Weight[rows[i]] * SegmentCount(subjects, t))
         + ExpectedWeight(rows, i + 1, t)

\* The records rows[i..] with a subject field of which a segment cleans to t.
Occurs(rows, t) ==
    \E i \in DOMAIN rows :
        /\ Column(df, SUBJECTS)[rows[i]] # NaN
        /\ SegmentCount(Column(df, SUBJECTS)[rows[i]], t) > 0

\* Every canonical term a subject cell of the current table can give.
TermsOfTable ==
    UNION {LET segments == split(Column(df, SUBJECTS)[r], ";") IN
           {clean_subject_term(segments[i]) : i \in DOMAIN segments} \ {None}
           : r \in {q \in DOMAIN df.rows : Column(df, SUBJECTS)[q] # NaN}}

\* -------------------------------------------------------------------- C1

\* C1: after every aggregation, the accumulated weight of every canonical
\* term t is the sum, over the filtered records with a subject field, of
\* record weight x number of that record's segments that clean to t (a term
\* repeated in one record adds the weight each time); a term is a key of the
\* table exactly when it occurs; and wherever the filtered records are cut in
\* two, the sums of the two parts' aggregations are the aggregation of the whole.
C1_WeightedAccumulationAdditive ==
    (Generated /\ page.aggregated) =>
        /\ DictKeys(page.all_subjects) \subseteq TermsOfTable
        /\ Len(page.all_subjects) = Cardinality(DictKeys(page.all_subjects))
        /\ \A t \in TermsOfTable :
              /\ DictGet(page.all_subjects, t, 0) = ExpectedWeight(page.filtered_df, 1, t)
              /\ t \in DictKeys(page.all_subjects) <=> Occurs(page.filtered_df, t)
              /\ \A k \in 0..Len(page.filtered_df) :
                    LET A == AggregateRows(df, page.Weight,
                                 SubSeq(page.filtered_df, 1, k), 1, <<>>)
                        B == AggregateRows(df, page.Weight,
                                 SubSeq(page.filtered_df, k + 1, Len(page.filtered_df)), 1, <<>>)
                    IN DictGet(A, t, 0) + DictGet(B, t, 0)
                           = DictGet(page.all_subjects, t, 0)

\* A table was aggregated in which two records carry the same term, one of
\* them twice, with non-zero weights.
C1_Witness ==
    /\ page.report = "results"
    /\ \E t \in TermsOfTable :
          /\ \E i, j \in DOMAIN page.filtered_df :
                /\ i # j
                /\ SegmentCount(Column(df, SUBJECTS)[page.filtered_df[i]], t) >= 2
                /\ SegmentCount(Column(df, SUBJECTS)[page.filtered_df[j]], t) >= 1
                /\ page.Weight[page.filtered_df[i]] # 0
                /\ page.Weight[page.filtered_df[j]] # 0
          /\ DictGet(page.all_subjects, t, 0) # 0

\* -------------------------------------------------------------------- C2

\* The filter keys offered for the current table, with their columns.
FilterKeys == {page.actual_filter_cols[i].key : i \in DOMAIN page.actual_filter_cols}

ColumnOfKey(key) ==
    (page.actual_filter_cols[CHOOSE i \in DOMAIN page.actual_filter_cols :
                                 page.actual_filter_cols[i].key = key]).col

\* The distinct non-missing values of the key's column in the unfiltered table.
DistinctValues(key) ==
    {Column(df, ColumnOfKey(key))[r] : r \in DOMAIN df.rows} \ {NaN}

\* The cell of record r in the key's column.
FilterCell(r, key) == Column(df, ColumnOfKey(key))[r]

\* C2 as stated: every selection smaller than the number of distinct values
\* of its column, the empty selection included, restricts the output to the
\* records whose value is selected.
C2_Original_EverySmallerSelectionRestricts ==
    Generated =>
        \A key \in FilterKeys :
            Cardinality(filter_state[key]) < Cardinality(DistinctValues(key)) =>
                \A i \in DOMAIN page.filtered_df :
                    /\ FilterCell(page.filtered_df[i], key) # NaN
                    /\ FilterCell(page.filtered_df[i], key) \in filter_state[key]

\* C2 (amended): every non-empty selection smaller than the number of
\* distinct non-missing values of its column in the unfiltered table restricts
\* the output to the records whose value in that column is selected, so no
\* record with a missing value in that column survives; an empty selection
\* restricts nothing.
C2_NonEmptySmallerSelectionRestricts ==
    Generated =>
        \A key \in FilterKeys :
            /\ ( /\ filter_state[key] # {}
                 /\ Cardinality(filter_state[key]) < Cardinality(DistinctValues(key)) ) =>
                   \A i \in DOMAIN page.filtered_df :
                       /\ FilterCell(page.filtered_df[i], key) # NaN
                       /\ FilterCell(page.filtered_df[i], key) \in filter_state[key]
            /\ (\A k \in FilterKeys : filter_state[k] = {}) =>
                   page.filtered_df = [r \in DOMAIN df.rows |-> r]

\* A run in which a non-empty smaller selection removed a record with a
\* missing value and a record with a value not selected, and kept a record.
C2_Witness ==
    /\ Generated
    /\ page.filtered_df # <<>>
    /\ \E key \in FilterKeys :
          /\ filter_state[key] # {}
          /\ Cardinality(filter_state[key]) < Cardinality(DistinctValues(key))
          /\ \E r \in DOMAIN df.rows : FilterCell(r, key) = NaN
          /\ \E r \in DOMAIN df.rows :
                FilterCell(r, key) # NaN /\ FilterCell(r, key) \notin filter_state[key]

\* -------------------------------------------------------------------- C3

\* The weight aliases of the data type picked in the radio, the Digital
\* option standing for the Digital branch of the column definitions.
WeightAliasesOfKind ==
    ColumnDefinitions(IF data_type = DataTypeOptions[2] THEN DigitalLiteral
                      ELSE data_type).WEIGHT_COL_ALIASES

\* C3 as stated: when no weight alias of the data type is a column (and so
\* no downloads or views column of the Digital type either), every record's
\* weight is 1, the fallback notice is shown and the metric label is
\* 'Records', whatever other columns the table has.
C3_FallbackWeightIsOne ==
    (SidebarShown /\ FirstPresent(WeightAliasesOfKind, df) = None) =>
        /\ \A r \in DOMAIN df.rows : page.Weight[r] = 1
        /\ page.fallback_notice
        /\ page.METRIC_UNIT = <<"Records">>

\* -------------------------------------------------------------------- C4

\* C4 as stated: with the Digital option of the data-type radio, a
\* downloads-style column present and no views-style column, every record's
\* weight is its parsed downloads value (0 when missing or no number) and the
\* metric label names the downloads only.
C4_DigitalDownloadsOnly ==
    ( /\ SidebarShown
      /\ data_type = DataTypeOptions[2]
      /\ \E i \in DOMAIN DownloadsAliases : HasColumn(df, DownloadsAliases[i])
      /\ \A i \in DOMAIN ViewsAliases : ~HasColumn(df, ViewsAliases[i]) ) =>
        LET downloads == FirstPresent(DownloadsAliases, df) IN
        /\ \A r \in DOMAIN df.rows :
              page.Weight[r] =
                  (IF to_numeric(Column(df, downloads)[r]).isna THEN 0
                   ELSE to_numeric(Column(df, downloads)[r]).num)
        /\ page.METRIC_UNIT \in {<<"Downloads">>, downloads}

\* -------------------------------------------------------------------- C5

\* The key's selection is one the filter engine applies.
ActiveKey(key) ==
    /\ filter_state[key] # {}
    /\ Cardinality(filter_state[key]) < Cardinality(DistinctValues(key))

\* C5: the output of the filter engine is, in table order, exactly the
\* records whose value is selected under every actively filtering key; the
\* filter summary names exactly the actively filtering keys; and when every
\* key's selection is all the distinct values of its column, the output is
\* the whole table (records with missing filter values included) and the
\* summary is empty.
C5_FiltersCombineWithAnd ==
    Generated =>
        /\ \A r \in DOMAIN df.rows :
              (\E i \in DOMAIN page.filtered_df : page.filtered_df[i] = r)
              <=> \A key \in FilterKeys :
                      ActiveKey(key) => FilterCell(r, key) \in filter_state[key]
        /\ \A i, j \in DOMAIN page.filtered_df : i < j => page.filtered_df[i] < page.filtered_df[j]
        /\ {page.filter_summary_parts[i].key : i \in DOMAIN page.filter_summary_parts}
               = {key \in FilterKeys : ActiveKey(key)}
        /\ (\A key \in FilterKeys : filter_state[key] = DistinctValues(key)) =>
              /\ page.filtered_df = [r \in DOMAIN df.rows |-> r]
              /\ page.filter_summary_parts = <<>>

\* A run with two actively filtering keys in which a record passes both,
\* and another passes one key only and is removed.
C5_Witness ==
    /\ Generated
    /\ Cardinality({key \in FilterKeys : ActiveKey(key)}) = 2
    /\ page.filtered_df # <<>>
    /\ \E r \in DOMAIN df.rows :
          /\ \A i \in DOMAIN page.filtered_df : page.filtered_df[i] # r
          /\ \E key \in FilterKeys : FilterCell(r, key) \in filter_state[key]

\* -------------------------------------------------------------------- C6

\* The position at which a term was first encountered during aggregation.
FirstSeen(t) == CHOOSE i \in DOMAIN page.all_subjects : page.all_subjects[i].key = t

\* The frequency table holds every aggregated term once, with its weight,
\* by weight descending, its rank being its position.
RankedByWeight ==
    /\ Len(page.freq_df) = Len(page.all_subjects)
    /\ \A i \in DOMAIN page.all_subjects :
          \E j \in DOMAIN page.freq_df :
              /\ page.freq_df[j].term = page.all_subjects[i].key
              /\ page.freq_df[j].count = page.all_subjects[i].value
    /\ \A i \in DOMAIN page.freq_df : page.freq_df[i].Rank = i
    /\ \A i, j \in DOMAIN page.freq_df :
          i < j => page.freq_df[i].count >= page.freq_df[j].count

C7_MinimumTermLengthProjection ==
    page.report = "results" =>
        LET kept == {i \in DOMAIN page.all_subjects :
                        Len(page.all_subjects[i].key) >= min_word_length}
        IN /\ {page.cloud_frequencies[i] : i \in DOMAIN page.cloud_frequencies}
                  = {page.all_subjects[i] : i \in kept}
           /\ {page.top_terms[i] : i \in DOMAIN page.top_terms}
                  = {page.all_subjects[i] : i \in kept}
           /\ {page.freq_df[i].term : i \in DOMAIN page.freq_df}
                  = {page.all_subjects[i].key : i \in kept}

\* -------------------------------------------------------------------- C8

\* The column the record weights are read from: the weight column, else a
\* column named 'Weight', else none.
WeightSource ==
    IF page.weight_col # None THEN page.weight_col
    ELSE IF HasColumn(df, WEIGHT) THEN WEIGHT
    ELSE None

\* The integer a cell spells (optional sign, digits), if it spells one.
SpellsInteger(cell, n) ==
    /\ cell # NaN
    /\ cell # <<>>
    /\ LET digits == IF Head(cell) = "-" THEN Tail(cell) ELSE cell IN
       /\ IsDigits(digits)
       /\ n = (IF Head(cell) = "-" THEN 0 - DigitsValue(digits) ELSE DigitsValue(digits))

\* C8 as stated: every record weight is >= 0, whatever the raw cell
\* (numeric, negative, unparseable or missing), and so is every accumulated
\* weight of the frequency table.
C8_Original_WeightsNonNegative ==
    SidebarShown =>
        /\ \A r \in DOMAIN page.Weight : page.Weight[r] >= 0
        /\ \A i \in DOMAIN page.all_subjects : page.all_subjects[i].value >= 0

\* C8 (amended): every record has a weight, which is a number: 1 under the
\* fallback, 0 when the raw cell is missing or is no number, and the parsed
\* value itself otherwise, a negative value included (nothing is clamped);
\* so a weight is negative only where the raw cell spells a negative number,
\* and every accumulated weight is >= 0 when no aggregated record has a
\* negative weight.
C8_WeightsAreParsedValues ==
    SidebarShown =>
        /\ DOMAIN page.Weight = DOMAIN df.rows
        /\ \A r \in DOMAIN df.rows :
              /\ page.Weight[r] \in Int
              /\ WeightSource = None => page.Weight[r] = 1
              /\ WeightSource # None =>
                    LET cell == Column(df, WeightSource)[r] IN
                    /\ \A n \in -9..9 : SpellsInteger(cell, n) => page.Weight[r] = n
                    /\ (\A n \in -9..9 : ~SpellsInteger(cell, n)) => page.Weight[r] = 0
        /\ (\A i \in DOMAIN page.filtered_df : page.Weight[page.filtered_df[i]] >= 0) =>
              \A i \in DOMAIN page.all_subjects : page.all_subjects[i].value >= 0

\* A table was aggregated whose usage cells spell a negative number, and a
\* term of the frequency table has a negative accumulated weight.
C8_Witness ==
    /\ page.report = "results"
    /\ WeightSource # None
    /\ \E r \in DOMAIN df.rows :
          /\ SpellsInteger(Column(df, WeightSource)[r], -2)
          /\ page.Weight[r] = -2
    /\ \E i \in DOMAIN page.all_subjects : page.all_subjects[i].value < 0

\* -------------------------------------------------------------------- C9

\* A column of the upload is named 'Subjects' once its name is trimmed.
HasSubjectsColumn ==
    \E c \in DOMAIN uploaded_file.header :
        LET name == uploaded_file.header[c]
            first == CHOOSE i \in DOMAIN name : name[i] # " "
        IN /\ \E i \in DOMAIN name : name[i] # " "
           /\ \A i \in DOMAIN name : name[i] # " " => (i = first /\ name[i] = "Subjects")

\* C9: a run on an uploaded table ends in the validation error exactly when
\* no column is named 'Subjects' after trimming; that run computes no weight,
\* offers no filter, and produces no aggregation and no frequency table,
\* whatever the data type and the other columns.
C9_MissingSubjectsIsFatal ==
    uploaded_file # NoFile =>
        /\ page.report = "validation_error" <=> ~HasSubjectsColumn
        /\ ~HasSubjectsColumn =>
              /\ page.Weight = <<>>
              /\ page.weight_col = None
              /\ ~page.fallback_notice
              /\ page.actual_filter_cols = <<>>
              /\ filter_state = <<>>
              /\ page.filtered_df = <<>>
              /\ page.all_subjects = <<>>
              /\ page.cloud_frequencies = <<>>
              /\ page.top_terms = <<>>
              /\ page.freq_df = <<>>
              /\ ~ENABLED Generate

\* A table without a subject column (its header is 'subjects') but with a
\* weight alias and a filter column of the data type ends in the validation
\* error.
C9_Witness ==
    /\ page.report = "validation_error"
    /\ data_type = "Physical Collections"
    /\ <<"subjects">> \in Range(uploaded_file.header)
    /\ <<"Loans">> \in Range(uploaded_file.header)
    /\ <<"Location Name">> \in Range(uploaded_file.header)

\* ------------------------------------------------------------------- C10

\* The records that pass every actively filtering key.
PassingRows ==
    {r \in DOMAIN df.rows :
        \A key \in FilterKeys : ActiveKey(key) => FilterCell(r, key) \in filter_state[key]}

\* C10: a run whose filter leaves no record ends with the empty-filter
\* report and does not aggregate; a run whose filter leaves records of which
\* no canonical term survives ends with the empty-aggregation report; the two
\* reports are told apart by exactly that, and neither run produces a
\* frequency table, a word cloud or a bar chart.
C10_EmptyResultsAreTerminal ==
    Generated =>
        /\ page.report = "empty_filter" <=> PassingRows = {}
        /\ page.report = "empty_aggregation" <=>
              ( /\ PassingRows # {}
                /\ \A t \in TermsOfTable :
                      \A r \in PassingRows :
                          \/ Column(df, SUBJECTS)[r] = NaN
                          \/ SegmentCount(Column(df, SUBJECTS)[r], t) = 0 )
        /\ page.report = "empty_filter" =>
              ~page.aggregated /\ page.filtered_df = <<>>
        /\ page.report = "empty_aggregation" =>
              page.aggregated /\ page.filtered_df # <<>>
        /\ page.report \in {"empty_filter", "empty_aggregation"} =>
              /\ page.all_subjects = <<>>
              /\ page.cloud_frequencies = <<>>
              /\ page.top_terms = <<>>
              /\ page.freq_df = <<>>

\* A table with records all of which two combined selections remove.
C10_Witness ==
    /\ page.report = "empty_filter"
    /\ Len(df.rows) >= 2
    /\ Len(page.filter_summary_parts) = 2
    /\ ~page.aggregated

\* ------------------------------------------------------------------- C11

\* The column definitions of the data type picked in the radio, the Digital
\* option standing for the Digital branch of the column definitions.
FilterColsOfKind ==
    ColumnDefinitions(IF data_type = DataTypeOptions[2] THEN DigitalLiteral
                      ELSE data_type).FILTER_COLS

\* value is the first name of the list aliases that is a column of the
\* table, or None when no name of the list is a column.
IsFirstPresentAlias(aliases, value) ==
    IF \A i \in DOMAIN aliases : aliases[i] \notin Range(df.columns)
    THEN value = None
    ELSE \E i \in DOMAIN aliases :
            /\ value = aliases[i]
            /\ aliases[i] \in Range(df.columns)
            /\ \A j \in 1..(i - 1) : aliases[j] \notin Range(df.columns)

\* The upload with its columns (names and cells) rearranged by f.
Rearranged(file, f) ==
    [header |-> [c \in DOMAIN file.header |-> file.header[f[c]]],
     rows   |-> [r \in DOMAIN file.rows |->
                    [c \in DOMAIN file.header |-> file.rows[r][f[c]]]]]

\* The column bound to a filter key, or None when the key is not offered.
BoundColumn(key) == IF key \in FilterKeys THEN ColumnOfKey(key) ELSE None

\* The resolved schema is what the aliases lists give: the weight column is
\* the first present name of weight_aliases, every key of filter_cols is
\* bound to the first present name of its list and left out when none is
\* present, no other key is bound, every resolved name is a column of the
\* table, and the same is resolved however the columns are arranged.
ResolvedFrom(weight_aliases, filter_cols) ==
    /\ IsFirstPresentAlias(weight_aliases, page.weight_col)
    /\ \A i \in DOMAIN filter_cols :
          IsFirstPresentAlias(filter_cols[i].aliases, BoundColumn(filter_cols[i].key))
    /\ FilterKeys \subseteq {filter_cols[i].key : i \in DOMAIN filter_cols}
    /\ page.weight_col # None => page.weight_col \in Range(df.columns)
    /\ \A key \in FilterKeys : ColumnOfKey(key) \in Range(df.columns)
    /\ \A f \in Orders(Len(uploaded_file.header)) :
          LET q == Script(data_type, Rearranged(uploaded_file, f), filter_state, FALSE)
          IN /\ q.weight_col = page.weight_col
             /\ q.actual_filter_cols = page.actual_filter_cols

\* C11: for every data type of the radio and every set of present columns,
\* the weight column is the first alias of that data type's list that is a
\* column of the table (none if no alias is), each filter key of the data
\* type is bound to the first present alias of its list and left out when
\* none is present; the result is the same for every arrangement of the
\* columns, and every resolved value is a column name of the table.
C11_ResolverUsesAliasesOfKind ==
    SidebarShown => ResolvedFrom(WeightAliasesOfKind, FilterColsOfKind)

\* ------------------------------------------------------------------- C12

\* The text of s between its surrounding whitespace.
Trimmed(s) ==
    LET inner == {i \in DOMAIN s : s[i] \notin Whitespace} IN
    IF inner = {} THEN <<>>
    ELSE SubSeq(s, CHOOSE i \in inner : \A j \in inner : i <= j,
                   CHOOSE i \in inner : \A j \in inner : i >= j)

\* s up to its last character that is neither '.' nor ';'.
WithoutTrailingPunctuation(s) ==
    LET other == {i \in DOMAIN s : s[i] \notin {".", ";"}} IN
    IF other = {} THEN <<>>
    ELSE SubSeq(s, 1, CHOOSE i \in other : \A j \in other : i >= j)

\* Positions p..b of s spell '(', one or more digits or hyphens, ')'.
IsGroup(s, p, b) ==
    /\ s[p] = "("
    /\ s[b] = ")"
    /\ b > p + 1
    /\ \A q \in (p + 1)..(b - 1) : s[q] \in DateChars

\* Position q of s is in such a group or in the whitespace right before one.
InGroup(s, q) ==
    \E p, b \in DOMAIN s :
        /\ IsGroup(s, p, b)
        /\ \/ p <= q /\ q <= b
           \/ q < p /\ \A k \in q..(p - 1) : s[k] \in Whitespace

\* s without its groups and the whitespace before them.
WithoutGroups(s) ==
    LET kept == SelectSeq([i \in DOMAIN s |-> i], LAMBDA i : ~InGroup(s, i))
    IN [k \in DOMAIN kept |-> s[kept[k]]]

\* The number of hyphens in a row that end at position q of s.
HyphensUpTo(s, q) ==
    Cardinality({k \in 1..q : \A m \in k..q : s[m] = "-"})

RECURSIVE Concatenation(_)
Concatenation(parts) ==
    IF parts = <<>> THEN <<>> ELSE Head(parts) \o Concatenation(Tail(parts))

\* s with every '--' replaced by ' - ', pairs taken from the left of each
\* row of hyphens.
WithPairsReplaced(s) ==
    Concatenation(
        [q \in DOMAIN s |->
            IF s[q] # "-" THEN <<s[q]>>
            ELSE IF HyphensUpTo(s, q) % 2 = 0 THEN <<>>
            ELSE IF q < Len(s) /\ s[q + 1] = "-" THEN <<" ", "-", " ">>
            ELSE <<"-">>])

\* C12: for every raw term, clean_subject_term returns None when the term is
\* missing or empty, and otherwise the result of, in this order, trimming
\* the surrounding whitespace, removing the trailing run of '.' and ';',
\* removing every '(digits and hyphens)' group with the whitespace before
\* it, and replacing every '--' by ' - '; it returns None exactly when that
\* result is the empty string, so a term of whitespace only gives None; and
\* "World History (1990-2000)." gives "World History".
C12_NormalizerIsThePipeline ==
    "clean_subject_term" \in returned =>
        LET result == WithPairsReplaced(WithoutGroups(
                          WithoutTrailingPunctuation(Trimmed(term))))
        IN /\ (term = NaN \/ term = <<>>) => cleaned = None
           /\ (term # NaN /\ term # <<>>) =>
                 /\ cleaned = None <=> result = <<>>
                 /\ result # <<>> => cleaned = result
           /\ (term # NaN /\ \A i \in DOMAIN term : term[i] \in Whitespace) =>
                 cleaned = None
           /\ term = WorldHistory =>
                 cleaned = <<"W", "o", "r", "l", "d", " ", "H", "i", "s", "t", "o", "r", "y">>

\* A heading was cleaned of which every step changed something: padding,
\* trailing punctuation, a date group after a blank, and a '--'.
C12_Witness ==
    /\ "clean_subject_term" \in returned
    /\ term = PaddedHeading
    /\ cleaned = <<"a", " ", "-", " ", "b">>

\* ------------------------------------------------------------------- C13

\* c is a term the cleaning leaves as it is, with no surrounding whitespace
\* and no trailing '.' or ';'.
IsCanonical(c) ==
    /\ clean_subject_term(c) = c
    /\ c # <<>>
    /\ Head(c) \notin Whitespace
    /\ c[Len(c)] \notin Whitespace \cup {".", ";"}

\* C13: every term c that clean_subject_term returns is a fixed point of
\* clean_subject_term, with no surrounding whitespace and no trailing '.' or
\* ';'; so every key under which process_subjects accumulates is such a
\* term, and segments that differ only by a removed date group or trailing
\* punctuation share one key.
C13_CanonicalTermsAreFixedPoints ==
    /\ ("clean_subject_term" \in returned /\ cleaned # None) => IsCanonical(cleaned)
    /\ "process_subjects" \in returned =>
          \A i \in DOMAIN subjects_weighted : IsCanonical(subjects_weighted[i].key)

\* ------------------------------------------------------------------- C14

=============================================================================
